---- MODULE Spec2Model ----
(***************************************************************************)
(* Model of poogle/containers.py: PoogleResultsPage and PoogleResult.       *)
(*                                                                         *)
(* A document tree (the "soup") is a record:                               *)
(*   stats  : None, or the text of the element with id 'resultStats'       *)
(*   search : what soup.find(id='search').ol.find_all('li', class g) sees  *)
(*   foot   : None, or the <td> cells under the element with id 'foot'     *)
(* Text is a sequence of one-character strings.  An optional value is the  *)
(* empty sequence (Python's None) or a one-element sequence.               *)
(*                                                                         *)
(* One caller constructs two pages from the same soup, one whose Poogle    *)
(* has strict = TRUE and one whose Poogle has strict = FALSE.  The program  *)
(* is single threaded: a construction runs to its end before the next one  *)
(* starts.  Pages are indexed by the value of poogle.strict.               *)
(***************************************************************************)
EXTENDS Integers, Sequences, FiniteSets, TLC

VARIABLES
    soup,              \* the parsed document both pages are built from
    py,                \* major version of the interpreter running the code
    pc,                \* pc[s]: position of the constructor of page s
    results,           \* self.results
    count,             \* self.count
    total_results,     \* self.total_results
    number,            \* self.number
    items,             \* the local `results` of _parse_results (line 41)
    idx,               \* position of the for loop of line 42 (1-based)
    error,             \* exception that left the constructor, or NoError
    raised_at,         \* the step of the constructor that raised it
    page_number_call   \* outcome of a call of _parse_page_number on page s

vars == <<soup, py, pc, results, count, total_results, number, items, idx,
          error, raised_at, page_number_call>>

----------------------------------------------------------------------------
(* Bounds of the model *)

MaxEntries == 2

MaxStatsLen == 5

MaxCells == 2

----------------------------------------------------------------------------
(* Optional values, exceptions *)

None == <<>>

Some(v) == <<v>>

NoError == "none"

ParserError == "PoogleParserError"

AttributeError == "AttributeError"

\* poogle/errors.py: PoogleParserError derives from PoogleError
IsPoogleError(exc) == exc = ParserError

PyVersions == {2, 3}

Modes == BOOLEAN

----------------------------------------------------------------------------
(* Characters and text *)

Digits == {"0", "1", "2", "3", "4", "5", "6", "7", "8", "9"}

Letters ==
    {"a", "b", "c", "d", "e", "f", "g", "h", "i", "j", "k", "l", "m",
     "n", "o", "p", "q", "r", "s", "t", "u", "v", "w", "x", "y", "z",
     "A", "B", "C", "D", "E", "F", "G", "H", "I", "J", "K", "L", "M",
     "N", "O", "P", "Q", "R", "S", "T", "U", "V", "W", "X", "Y", "Z"}

WordOrSpace == Letters \cup Digits \cup {"_", " "}

\* the regular expression class [\w\s]
IsWordOrSpace(c) == c \in WordOrSpace

DigitValue(c) ==
    CASE c = "0" -> 0 [] c = "1" -> 1 [] c = "2" -> 2 [] c = "3" -> 3
      [] c = "4" -> 4 [] c = "5" -> 5 [] c = "6" -> 6 [] c = "7" -> 7
      [] c = "8" -> 8 [] c = "9" -> 9

\* str.isdigit()
IsDigit(s) == Len(s) > 0 /\ \A k \in 1..Len(s) : s[k] \in Digits

RECURSIVE ToInt(_)
\* int(s) for a text of decimal digits
ToInt(s) ==
    IF Len(s) = 0 THEN 0
    ELSE 10 * ToInt(SubSeq(s, 1, Len(s) - 1)) + DigitValue(s[Len(s)])

\* s.replace(',', '')
StripCommas(s) == SelectSeq(s, LAMBDA c : c # ",")

StartsWithButLast(s, prefix) ==
    /\ Len(s) >= Len(prefix) - 1
    /\ SubSeq(s, 1, Len(prefix) - 1) = SubSeq(prefix, 1, Len(prefix) - 1)

\* str.startswith(prefix)
StartsWith(s, prefix) ==
    /\ Len(s) >= Len(prefix)
    /\ SubSeq(s, 1, Len(prefix)) = prefix

RECURSIVE SeqsUpTo(_, _)
\* the sequences over S of length at most n
SeqsUpTo(S, n) ==
    IF n = 0 THEN {<<>>}
    ELSE LET shorter == SeqsUpTo(S, n - 1)
         IN  shorter \cup {Append(q, x) : q \in shorter, x \in S}

----------------------------------------------------------------------------
\* _parse_total_results_count.  The pattern of line 68 is, in order: the
\* start of the text; a lazy run of one or more [\w\s]; the group `count`,
\* which is one or more digits followed by any number of groups of a comma
\* and one or more digits; a run of one or more [\w\s]; the end of the text.

\* the group `count` matches exactly s[from..to]
IsCountGroup(s, from, to) ==
    /\ from <= to
    /\ s[from] \in Digits
    /\ s[to] \in Digits
    /\ \A k \in from..to : s[k] \in Digits \/ s[k] = ","
    /\ \A k \in from..(to - 1) : ~(s[k] = "," /\ s[k + 1] = ",")

\* the pattern matches s with the leading run s[1..p], the count group
\* s[p+1..e] and the trailing run s[e+1..Len(s)]
MatchesAt(s, p, e) ==
    /\ 1 <= p /\ p < e /\ e < Len(s)
    /\ IsCountGroup(s, p + 1, e)
    /\ \A k \in 1..p : IsWordOrSpace(s[k])
    /\ \A k \in (e + 1)..Len(s) : IsWordOrSpace(s[k])

LeadEnds(s) == {p \in 1..Len(s) : \E e \in 1..Len(s) : MatchesAt(s, p, e)}

Smallest(S) == CHOOSE x \in S : \A y \in S : x <= y

Largest(S) == CHOOSE x \in S : \A y \in S : x >= y

\* [\w\s]+? is lazy: the backtracking matcher settles on the shortest
\* leading run for which the rest of the pattern can match
LeadEnd(s) == Smallest(LeadEnds(s))

CountEndLazy(s, p) == Smallest({e \in 1..Len(s) : MatchesAt(s, p, e)})

\* the digit runs and the comma groups are greedy: the alternatives are tried from the longest
\* count group to the shortest
CountEnd(s, p) == Largest({e \in 1..Len(s) : MatchesAt(s, p, e)})

\* re.match(...) is not None
ReMatch(s) == LeadEnds(s) # {}

\* match.group('count')
GroupCount(s) == SubSeq(s, LeadEnd(s) + 1, CountEnd(s, LeadEnd(s)))

\* The outcome of _parse_total_results_count on the stats text (None when
\* the element is missing): the exception that leaves it, and the value it
\* assigns to total_results when none does.
\* Lines 60-64: a missing element makes `.text` fail; the handler reads
\* e.message, which exists on Python 2 and not on Python 3, where reading it
\* raises AttributeError from inside the handler.
ParseTotalResultsCount(stats, version) ==
    IF stats = None
    THEN [exc |-> IF version = 2 THEN ParserError ELSE AttributeError,
          total |-> 0]
    ELSE IF ~ReMatch(stats[1])
    THEN [exc |-> ParserError, total |-> 0]
    ELSE [exc |-> NoError, total |-> ToInt(StripCommas(GroupCount(stats[1])))]

----------------------------------------------------------------------------
(* PoogleResult *)

UrlPrefix == <<"/", "u", "r", "l", "?">>

PoogleResultCiteFirst(entry) ==
    IF entry.a = None
    THEN [exc |-> AttributeError, title |-> None, url |-> None]
    ELSE IF entry.a[1].href = None
    THEN [exc |-> AttributeError, title |-> Some(entry.a[1].text), url |-> None]
    ELSE IF entry.cite = None
    THEN [exc |-> AttributeError, title |-> Some(entry.a[1].text), url |-> None]
    ELSE IF ~StartsWith(entry.a[1].href[1], UrlPrefix)
    THEN [exc |-> ParserError, title |-> Some(entry.a[1].text),
          url |-> Some(entry.cite[1])]
    ELSE [exc |-> NoError, title |-> Some(entry.a[1].text),
          url |-> Some(entry.cite[1])]

\* PoogleResult(page, entry): the exception that leaves the constructor and
\* the fields of the object at that moment (lines 113-135)
PoogleResult(entry) ==
    IF entry.a = None                                         \* line 125
    THEN [exc |-> AttributeError, title |-> None, url |-> None]
    ELSE IF entry.a[1].href = None                            \* line 130
    THEN [exc |-> AttributeError, title |-> Some(entry.a[1].text), url |-> None]
    ELSE IF ~StartsWith(entry.a[1].href[1], UrlPrefix)        \* line 131
    THEN [exc |-> ParserError, title |-> Some(entry.a[1].text), url |-> None]
    ELSE IF entry.cite = None                                 \* line 134
    THEN [exc |-> AttributeError, title |-> Some(entry.a[1].text), url |-> None]
    ELSE [exc |-> NoError, title |-> Some(entry.a[1].text),
          url |-> Some(entry.cite[1])]

----------------------------------------------------------------------------
(* _parse_page_number *)

\* `not td.a and td.text.isdigit()` (line 85)
IsPageCell(td) == ~td.a /\ IsDigit(td.text)

PageCells(tds) == {k \in 1..Len(tds) : IsPageCell(tds[k])}

\* The outcome of _parse_page_number: the exception that leaves it and the
\* value of self.number afterwards (old when nothing is assigned)
ParsePageNumberOutcome(foot, strict, old) ==
    IF foot = None                                            \* line 83
    THEN [exc |-> AttributeError, number |-> old]
    ELSE IF PageCells(foot[1]) # {}                           \* lines 84-88
    THEN [exc |-> NoError,
          number |-> ToInt(foot[1][Smallest(PageCells(foot[1]))].text)]
    ELSE [exc |-> IF strict THEN ParserError ELSE NoError,    \* lines 89-92
          number |-> old]

----------------------------------------------------------------------------
(* _parse_results *)

\* line 41: soup.find(id='search').ol.find_all('li', {'class': 'g'}).  A
\* missing container makes `.ol` fail, a missing list makes `.find_all` fail.
FindAllLenient(search) ==
    IF search = None \/ search[1].ol = None
    THEN [exc |-> NoError, found |-> <<>>]
    ELSE [exc |-> NoError, found |-> search[1].ol[1]]

FindAll(search) ==
    IF search = None \/ search[1].ol = None
    THEN [exc |-> AttributeError, found |-> <<>>]
    ELSE [exc |-> NoError, found |-> search[1].ol[1]]

\* lines 35-39: which outcome of _parse_total_results_count leaves
\* _parse_results
Reraised(strict, exc) == exc # NoError /\ (IsPoogleError(exc) => strict)

TotalAfterStrictOnly(strict, old, o) ==
    IF o.exc = NoError /\ strict THEN o.total ELSE old

\* line 73: total_results is assigned only when nothing was raised
TotalAfter(strict, old, o) == IF o.exc = NoError THEN o.total ELSE old

AppendedUnlessLookup(r) == r.exc \in {NoError, ParserError}

\* line 44: the append runs only when PoogleResult(...) returned
Appended(r) == r.exc = NoError

\* line 45: the except clause of the loop
Skipped(r) == r.exc = ParserError

Prepended(rs, r) == <<[title |-> r.title, url |-> r.url]>> \o rs

\* line 44: self.results.append(...)
WithResult(rs, r) == Append(rs, [title |-> r.title, url |-> r.url])

\* line 49: self.count = len(self.results)
CountOf(rs) == Len(rs)

Inactive(s) == pc[s] \in {"idle", "done", "raised"}

Raise(s, exc, at) ==
    /\ pc' = [pc EXCEPT ![s] = "raised"]
    /\ error' = [error EXCEPT ![s] = exc]
    /\ raised_at' = [raised_at EXCEPT ![s] = at]

\* __init__, lines 16-23, up to the call of _parse_results
Construct(s) ==
    /\ pc[s] = "idle"
    /\ \A t \in Modes : Inactive(t)
    /\ results' = [results EXCEPT ![s] = <<>>]
    /\ count' = [count EXCEPT ![s] = 0]
    /\ total_results' = [total_results EXCEPT ![s] = 0]
    /\ number' = [number EXCEPT ![s] = 0]
    /\ pc' = [pc EXCEPT ![s] = "parse_total"]
    /\ UNCHANGED <<soup, py, items, idx, error, raised_at, page_number_call>>

\* _parse_results, lines 35-39, with _parse_total_results_count
ParseTotal(s) ==
    /\ pc[s] = "parse_total"
    /\ LET o == ParseTotalResultsCount(soup.stats, py) IN
         /\ total_results' =
                [total_results EXCEPT ![s] = TotalAfter(s, total_results[s], o)]
         /\ IF Reraised(s, o.exc)
            THEN Raise(s, o.exc, "total")
            ELSE /\ pc' = [pc EXCEPT ![s] = "find"]
                 /\ UNCHANGED <<error, raised_at>>
    /\ UNCHANGED <<soup, py, results, count, number, items, idx,
                   page_number_call>>

\* _parse_results, line 41
FindResults(s) ==
    /\ pc[s] = "find"
    /\ LET f == FindAll(soup.search) IN
         IF f.exc # NoError
         THEN /\ Raise(s, f.exc, "find")
              /\ UNCHANGED <<items, idx>>
         ELSE /\ items' = [items EXCEPT ![s] = f.found]
              /\ idx' = [idx EXCEPT ![s] = 1]
              /\ pc' = [pc EXCEPT ![s] = "loop"]
              /\ UNCHANGED <<error, raised_at>>
    /\ UNCHANGED <<soup, py, results, count, total_results, number,
                   page_number_call>>

\* _parse_results, lines 42-47: one iteration of the loop
LoopStep(s) ==
    /\ pc[s] = "loop"
    /\ idx[s] <= Len(items[s])
    /\ LET r == PoogleResult(items[s][idx[s]]) IN
         IF Appended(r)
         THEN /\ results' = [results EXCEPT ![s] = WithResult(results[s], r)]
              /\ idx' = [idx EXCEPT ![s] = idx[s] + 1]
              /\ UNCHANGED <<pc, error, raised_at>>
         ELSE IF Skipped(r)
         THEN /\ idx' = [idx EXCEPT ![s] = idx[s] + 1]
              /\ UNCHANGED <<pc, error, raised_at, results>>
         ELSE /\ Raise(s, r.exc, "loop")
              /\ UNCHANGED <<results, idx>>
    /\ UNCHANGED <<soup, py, count, total_results, number, items,
                   page_number_call>>

\* _parse_results, line 49, and the return of the constructor
SetCount(s) ==
    /\ pc[s] = "loop"
    /\ idx[s] > Len(items[s])
    /\ count' = [count EXCEPT ![s] = CountOf(results[s])]
    /\ pc' = [pc EXCEPT ![s] = "done"]
    /\ UNCHANGED <<soup, py, results, total_results, number, items, idx,
                   error, raised_at, page_number_call>>

\* _parse_page_number, lines 83-92.  Nothing in containers.py calls it; the
\* holder of a constructed page can.
ParsePageNumber(s) ==
    /\ pc[s] = "done"
    /\ page_number_call[s] = "uncalled"
    /\ \A t \in Modes : Inactive(t)
    /\ LET o == ParsePageNumberOutcome(soup.foot, s, number[s]) IN
         /\ number' = [number EXCEPT ![s] = o.number]
         /\ page_number_call' =
                [page_number_call EXCEPT ![s] =
                     IF o.exc = NoError THEN "returned" ELSE o.exc]
    /\ UNCHANGED <<soup, py, pc, results, count, total_results, items, idx,
                   error, raised_at>>

Next ==
    \E s \in Modes :
        \/ Construct(s)
        \/ ParseTotal(s)
        \/ FindResults(s)
        \/ LoopStep(s)
        \/ SetCount(s)
        \/ ParsePageNumber(s)

----------------------------------------------------------------------------
(* Documents *)

StatsExample ==
    <<"A", "b", "o", "u", "t", " ", "1", ",", "2", "3", "4", ",", "5", "6",
      "7", " ", "r", "e", "s", "u", "l", "t", "s", " ", "(", "0", ".", "4",
      "5", " ", "s", "e", "c", "o", "n", "d", "s", ")">>

StatsAbout ==
    <<"A", "b", "o", "u", "t", " ", "1", ",", "2", "3", "4", ",", "5", "6",
      "7", " ", "r", "e", "s", "u", "l", "t", "s">>

StatsNoResults ==
    <<"N", "o", " ", "r", "e", "s", "u", "l", "t", "s", " ", "f", "o", "u",
      "n", "d">>

StatsAlphabet == {"A", "1", ",", "("}

StatsSamples == {None, Some(StatsNoResults), Some(StatsAbout)}

StatsAll ==
    StatsSamples \cup {Some(StatsExample)}
        \cup {Some(s) : s \in SeqsUpTo(StatsAlphabet, MaxStatsLen)}

HrefResult == <<"/", "u", "r", "l", "?", "q", "=", "x">>

HrefImages == <<"/", "i", "m", "g", "r", "e", "s", "?", "q", "=", "x">>

HrefNoQuery == <<"/", "u", "r", "l">>

Anchor(text, href) == Some([text |-> text, href |-> href])

Entry(a, cite) == [a |-> a, cite |-> cite]

GoodX == Entry(Anchor(<<"t">>, Some(HrefResult)), Some(<<"x">>))

GoodY == Entry(Anchor(<<"u">>, Some(HrefResult)), Some(<<"y">>))

ImagesEntry == Entry(Anchor(<<"t">>, Some(HrefImages)), Some(<<"x">>))

Entries ==
    {GoodX, GoodY, ImagesEntry,
     Entry(Anchor(<<"t">>, Some(HrefImages)), None),
     Entry(Anchor(<<"t">>, Some(HrefNoQuery)), Some(<<"x">>)),
     Entry(Anchor(<<"t">>, Some(HrefResult)), None),
     Entry(Anchor(<<"t">>, None), Some(<<"x">>)),
     Entry(None, Some(<<"x">>))}

Search(ol) == Some([ol |-> ol])

SearchSamples == {None, Search(Some(<<GoodX, ImagesEntry, GoodY>>))}

SearchAll ==
    {None, Search(None)}
        \cup {Search(Some(es)) : es \in SeqsUpTo(Entries, MaxEntries)}

Td(a, text) == [a |-> a, text |-> text]

FootExample ==
    Some(<<Td(TRUE, <<"P", "r", "e", "v", "i", "o", "u", "s">>),
           Td(FALSE, <<"1">>), Td(FALSE, <<"2">>), Td(FALSE, <<"3">>),
           Td(TRUE, <<"N", "e", "x", "t">>)>>)

CellTexts == {<<>>, <<"2">>, <<"1", "3">>, <<"2", "N">>}

Cells == {Td(a, text) : a \in BOOLEAN, text \in CellTexts}

FootSamples == {FootExample}

FootAll == {None, FootExample} \cup {Some(c) : c \in SeqsUpTo(Cells, MaxCells)}

----------------------------------------------------------------------------
(* Specifications *)

InitPages ==
    /\ py \in PyVersions
    /\ pc = [s \in Modes |-> "idle"]
    /\ results = [s \in Modes |-> <<>>]
    /\ count = [s \in Modes |-> 0]
    /\ total_results = [s \in Modes |-> 0]
    /\ number = [s \in Modes |-> 0]
    /\ items = [s \in Modes |-> <<>>]
    /\ idx = [s \in Modes |-> 1]
    /\ error = [s \in Modes |-> NoError]
    /\ raised_at = [s \in Modes |-> "nowhere"]
    /\ page_number_call = [s \in Modes |-> "uncalled"]

\* every result list, with sample stats texts and the sample footer
Init ==
    /\ soup \in [stats : StatsSamples, search : SearchAll, foot : FootSamples]
    /\ InitPages

Spec == Init /\ [][Next]_vars

\* every stats text, with sample result lists
InitStats ==
    /\ soup \in [stats : StatsAll, search : SearchSamples, foot : FootSamples]
    /\ InitPages

SpecStats == InitStats /\ [][Next]_vars

\* every footer, with a sample stats text and sample result lists
InitFoot ==
    /\ soup \in [stats : {Some(StatsAbout)}, search : SearchSamples,
                 foot : FootAll]
    /\ InitPages

SpecFoot == InitFoot /\ [][Next]_vars

----------------------------------------------------------------------------
(* Vocabulary of the properties *)

Strict == TRUE

Lenient == FALSE

Finished(s) == pc[s] \in {"done", "raised"}

\* the results container and its ordered list are both in the document
HasList == soup.search # None /\ soup.search[1].ol # None

DocEntries == soup.search[1].ol[1]

\* the text begins with the five characters /url?
HasUrlPrefix(h) ==
    /\ Len(h) >= 5
    /\ h[1] = "/" /\ h[2] = "u" /\ h[3] = "r" /\ h[4] = "l" /\ h[5] = "?"

\* anchor present, href starting with /url?, citation present
WellFormed(e) ==
    /\ e.a # None
    /\ e.a[1].href # None
    /\ HasUrlPrefix(e.a[1].href[1])
    /\ e.cite # None

\* anchor present with an href that does not start with /url?
BadHref(e) ==
    /\ e.a # None
    /\ e.a[1].href # None
    /\ ~HasUrlPrefix(e.a[1].href[1])

\* the Result of a well-formed entry: the anchor's text and the citation's
ResultOf(e) == [title |-> Some(e.a[1].text), url |-> Some(e.cite[1])]

\* the Results of the well-formed entries of es, in the order of es
ResultsOf(es) ==
    LET good == SelectSeq(es, WellFormed)
    IN  [i \in 1..Len(good) |-> ResultOf(good[i])]

\* total-results parsing succeeds on the document
StatsValid == soup.stats # None /\ ReMatch(soup.stats[1])

----------------------------------------------------------------------------
(* Properties *)

\* C1: on a page whose N result entries are all well-formed, a construction
\* can only be stopped by the total-results step, so it succeeds on a valid
\* page (one whose total-results parsing succeeds), and a constructed page
\* has len(results) = count = N with the i-th result built from the i-th
\* entry of the document.
C1_CountAndOrder ==
    (HasList /\ \A k \in 1..Len(DocEntries) : WellFormed(DocEntries[k])) =>
        \A s \in Modes :
            /\ StatsValid => pc[s] # "raised"
            /\ pc[s] = "raised" => raised_at[s] = "total"
            /\ pc[s] = "done" =>
                   /\ Len(results[s]) = Len(DocEntries)
                   /\ count[s] = Len(DocEntries)
                   /\ \A i \in 1..Len(DocEntries) :
                          results[s][i] = ResultOf(DocEntries[i])

C1_Witness ==
    /\ HasList
    /\ Len(DocEntries) = 2
    /\ DocEntries[1] # DocEntries[2]
    /\ \A k \in 1..2 : WellFormed(DocEntries[k])
    /\ pc[Strict] = "done"
    /\ pc[Lenient] = "done"
    /\ count[Strict] = 2

\* C2: an entry whose anchor href does not start with /url? is left out of
\* results and never makes the construction fail, in strict and in lenient
\* mode: the scan keeps exactly the well-formed entries it has passed, in
\* document order; a failure inside the scan is never at such an entry; and
\* when the other entries are well-formed and the total-results step lets
\* the construction through, the construction succeeds.
C2_BadHrefSkipped ==
    \A s \in Modes :
        /\ pc[s] \in {"loop", "done"} =>
               results[s] = ResultsOf(SubSeq(items[s], 1, idx[s] - 1))
        /\ (pc[s] = "raised" /\ raised_at[s] = "loop") =>
               ~BadHref(items[s][idx[s]])
        /\ ( /\ HasList
             /\ StatsValid
             /\ \A k \in 1..Len(DocEntries) :
                    WellFormed(DocEntries[k]) \/ BadHref(DocEntries[k]) ) =>
               /\ pc[s] # "raised"
               /\ pc[s] = "done" => results[s] = ResultsOf(DocEntries)

C2_Witness ==
    /\ HasList
    /\ Len(DocEntries) = 2
    /\ BadHref(DocEntries[1])
    /\ WellFormed(DocEntries[2])
    /\ pc[Strict] = "done"
    /\ pc[Lenient] = "done"
    /\ results[Strict] = <<ResultOf(DocEntries[2])>>
    /\ results[Lenient] = <<ResultOf(DocEntries[2])>>

\* C3: when total-results parsing fails (element missing, or text that does
\* not match), the lenient construction is not stopped by it, keeps
\* total_results = 0 and still parses the result list, and the strict
\* construction fails with PoogleParserError.
C3_StatsFailurePolicy ==
    ~StatsValid =>
        /\ Finished(Strict) =>
               /\ pc[Strict] = "raised"
               /\ error[Strict] = ParserError
        /\ raised_at[Lenient] # "total"
        /\ total_results[Lenient] = 0
        /\ (HasList /\ pc[Lenient] = "done") =>
               results[Lenient] = ResultsOf(DocEntries)

\* the total-results step is behind the construction of page s
PastTotal(s) ==
    \/ pc[s] \in {"find", "loop", "done"}
    \/ pc[s] = "raised" /\ raised_at[s] # "total"

\* t is leading words without a digit (t[1..p]), then a comma-grouped
\* integer (t[p+1..e]), then a run of word and whitespace characters that
\* does not begin with a digit
Decomposes(t, p, e) ==
    /\ 1 <= p /\ p < e /\ e < Len(t)
    /\ \A k \in 1..p : t[k] \in WordOrSpace \ Digits
    /\ IsCountGroup(t, p + 1, e)
    /\ \A k \in (e + 1)..Len(t) : t[k] \in WordOrSpace
    /\ t[e + 1] \notin Digits

\* C4 as stated: the stats text 'About 1,234,567 results (0.45 seconds)'
\* gives total_results = 1234567.
C4_ExampleTotal ==
    soup.stats = Some(StatsExample) =>
        \A s \in Modes : pc[s] = "done" => total_results[s] = 1234567

\* C4, amended: the stats text 'About 1,234,567 results' gives
\* total_results = 1234567; in general a text made of leading words without
\* a digit, a comma-grouped integer and a trailing run of word and
\* whitespace characters that does not begin with a digit gives that integer
\* with the commas removed; a text holding any character that is neither a
\* word character, whitespace nor a comma, such as
\* 'About 1,234,567 results (0.45 seconds)', does not match: total_results
\* stays 0 and the strict construction fails with PoogleParserError.
C4_TotalFromCommaGroupedCount ==
    \A s \in Modes :
        /\ soup.stats = Some(StatsAbout) =>
               /\ raised_at[s] # "total"
               /\ PastTotal(s) => total_results[s] = 1234567
        /\ soup.stats # None =>
               \A p, e \in 1..Len(soup.stats[1]) :
                   Decomposes(soup.stats[1], p, e) =>
                       /\ raised_at[s] # "total"
                       /\ PastTotal(s) =>
                              total_results[s] =
                                  ToInt(StripCommas(SubSeq(soup.stats[1], p + 1, e)))
        /\ ( /\ soup.stats # None
             /\ \E k \in 1..Len(soup.stats[1]) :
                    soup.stats[1][k] \notin WordOrSpace \cup {","} ) =>
               /\ total_results[s] = 0
               /\ Finished(Strict) =>
                      /\ raised_at[Strict] = "total"
                      /\ error[Strict] = ParserError

C4_Witness ==
    /\ soup.stats = Some(<<"A", "1", ",", "1", "A">>)
    /\ pc[Strict] = "done"
    /\ total_results[Strict] = 11
    /\ pc[Lenient] = "done"
    /\ total_results[Lenient] = 11

\* C5: after construction from a tree whose footer has a cell with no nested
\* link and all-digit text, number is the integer of the first such cell;
\* with no such cell the strict construction fails with PoogleParserError and
\* the lenient one leaves number at 0.
C5_NumberAfterConstruction ==
    soup.foot # None =>
        /\ PageCells(soup.foot[1]) # {} =>
               \A s \in Modes :
                   pc[s] = "done" =>
                       number[s] =
                           ToInt(soup.foot[1][Smallest(PageCells(soup.foot[1]))].text)
        /\ PageCells(soup.foot[1]) = {} =>
               /\ Finished(Strict) =>
                      /\ pc[Strict] = "raised"
                      /\ error[Strict] = ParserError
               /\ number[Lenient] = 0

\* C6: when the results container exists, no failure to parse an entry
\* (disallowed href, absent href attribute, missing anchor, missing citation)
\* stops the construction: the entry is skipped and results holds the
\* entries that parsed.
C6_MalformedEntriesOnlySkipped ==
    HasList =>
        \A s \in Modes :
            /\ raised_at[s] # "loop"
            /\ (Finished(s) /\ raised_at[s] # "total") =>
                   /\ pc[s] = "done"
                   /\ results[s] = ResultsOf(DocEntries)

\* C7: every element of a page's results has a title and a url that are not
\* None; a Result whose construction failed after its title was assigned is
\* never appended.
C7_ResultsFullyBuilt ==
    \A s \in Modes :
        \A i \in 1..Len(results[s]) :
            /\ results[s][i].title # None
            /\ results[s][i].url # None

C7_Witness ==
    /\ pc[Strict] = "done"
    /\ Len(items[Strict]) = 2
    /\ BadHref(items[Strict][1])
    /\ PoogleResult(items[Strict][1]).title # None
    /\ PoogleResult(items[Strict][1]).url = None
    /\ Len(results[Strict]) = 1

C9_StrictOnlyDecidesFailure ==
    pc[Strict] = "done" =>
        /\ pc[Lenient] # "raised"
        /\ pc[Lenient] = "done" =>
               /\ results[Strict] = results[Lenient]
               /\ count[Strict] = count[Lenient]
               /\ total_results[Strict] = total_results[Lenient]
               /\ (page_number_call[Strict] = "uncalled"
                     <=> page_number_call[Lenient] = "uncalled") =>
                      number[Strict] = number[Lenient]

C9_Witness ==
    /\ pc[Strict] = "done"
    /\ pc[Lenient] = "done"
    /\ Len(results[Strict]) = 2
    /\ total_results[Strict] = 1234567
    /\ page_number_call[Strict] = "uncalled"
    /\ page_number_call[Lenient] = "uncalled"

\* C10: (1) total-results parsing runs before any entry is looked at: a
\* construction stopped by it has empty results and count 0, and a failed
\* total-results parsing stops the strict construction there even when the
\* results container is missing too; (2) within an entry the href check comes
\* after the anchor lookup and before the citation lookup: an entry with an
\* anchor, a disallowed href and no citation is skipped and never stops the
\* construction.
C10_ParseOrder ==
    /\ \A s \in Modes :
           raised_at[s] = "total" =>
               /\ results[s] = <<>>
               /\ count[s] = 0
               /\ items[s] = <<>>
    /\ (~StatsValid /\ Finished(Strict)) =>
           /\ pc[Strict] = "raised"
           /\ raised_at[Strict] = "total"
    /\ \A s \in Modes :
           \A k \in 1..Len(items[s]) :
               (BadHref(items[s][k]) /\ items[s][k].cite = None) =>
                   /\ (pc[s] = "raised" /\ raised_at[s] = "loop") => idx[s] # k
                   /\ (pc[s] = "loop" /\ idx[s] = k + 1) =>
                          results[s] = ResultsOf(SubSeq(items[s], 1, k - 1))

C10_Witness ==
    /\ ~StatsValid
    /\ pc[Strict] = "raised"
    /\ raised_at[Strict] = "total"
    /\ pc[Lenient] = "done"
    /\ Len(items[Lenient]) = 2
    /\ BadHref(items[Lenient][1])
    /\ items[Lenient][1].cite = None
    /\ results[Lenient] = <<ResultOf(items[Lenient][2])>>

====
